---------------------------- MODULE Spec2Model ----------------------------
(***************************************************************************)
(* A model of go-request (package request, request.go, the revision with   *)
(* time.Duration timeouts and the logger): the HttpRequest descriptor and  *)
(* its fluent builder, the materialization of a descriptor into an         *)
(* *http.Request, and the fetch layer built on it.                         *)
(*                                                                         *)
(* Strings the code takes apart (URL strings, query strings) are sequences *)
(* of tokens; every other string is an atomic value.                       *)
(***************************************************************************)
EXTENDS Integers, Sequences, FiniteSets, TLC

VARIABLES
    hr,        \* the HttpRequest descriptor under construction
    calls,     \* builder calls made on hr since NewRequest
    last,      \* what the last operation handed back to its caller
    crashed,   \* a panic has unwound the goroutine: the process is gone
    mocks,     \* the process-wide registry of mocked responses
    pathArgs,  \* the segments a caller hands to CombinePathComponents
    combined,  \* what CombinePathComponents returned, call after call
    lock,      \* the thread that holds the registry's mutex, or "free"
    pc         \* where each thread is in its registry operation

vars == <<hr, calls, last, crashed, mocks, pathArgs, combined, lock, pc>>

\* What the operations on descriptors leave alone.
aux == <<pathArgs, combined, lock, pc>>

\* Threads that use the registry.
Threads == {"t1", "t2"}

\* A thread outside every registry operation. Inside one: at is "locked" (it
\* holds the mutex), "applied" (it has read or written the map), "invoke" (a
\* lookup found a responder, about to call it), "responder" (inside the
\* responder, which calls the registry itself); inner: the operation is the
\* responder's own call.
Idle == [at |-> "idle", op |-> "none", key |-> <<>>, found |-> FALSE, inner |-> FALSE]

\* Builder calls chained on one descriptor.
MaxCalls == 3

-----------------------------------------------------------------------------
(* Input domains *)

SchemeInputs == {"http", "https"}
HostInputs == {"h1", "h2"}
PathInputs == {"/p", "/q"}
Keys == {"a", "b"}
\* The keys in the order sort.Strings gives them (url.Values.Encode sorts).
KeysSorted == <<"a", "b">>
Vals == {"1", "x y"}
HeaderInputs == {"content-type", "authorization", "X-Dep"}
HeaderValues == {"text/plain", "hv"}
ContentTypeInputs == {"", "application/custom"}
BodyInputs == {"", "raw"}
\* "B AD" holds a space: not an HTTP token, http.NewRequest rejects it.
VerbInputs == {"GET", "B AD"}
TimeoutInputs == {0, 500}
CertInputs == {"", "good.crt", "missing.crt"}
KeyFileInputs == {"", "good.key"}
AuthInputs == {<<"", "">>, <<"user", "pw">>, <<"user", "">>, <<"", "pw">>}

\* Tokens of URL strings.
BadEscape == "%zz"
PathTokens == {"/p", "/q"}

\* url_string arguments of WithUrl.
UrlInputs ==
    { <<"http", ":", "//", "h1", "/p", "?", "a", "=", "1", "&", "b", "=", "x y">>,
      <<"https", ":", "//", "h2", "/q">>,
      <<"http", ":", "//", "h1", "/p", "?", "a", "=", "1", "&", "a", "=", "x y">>,
      <<"http", ":", "//", "h1", "/p", "?", "a", "=", "1", "&">>,
      <<"http", ":", "//", "h1", "/p", "?", "a">>,
      <<"http", ":", "//", BadEscape>> }

-----------------------------------------------------------------------------
(* url.Values and http.Header: a map from key to a list of values *)

\* The nil map and the empty map read alike (len, range, Encode, Get).
EmptyValues == [k \in {} |-> <<>>]

ValuesGet(m, k) == IF k \in DOMAIN m THEN m[k] ELSE <<>>

ValuesAddOverwrite(m, k, v) ==
    [x \in DOMAIN m \cup {k} |-> IF x = k THEN <<v>> ELSE m[x]]

\* url.Values.Add: append to the key's list.
ValuesAdd(m, k, v) ==
    [x \in DOMAIN m \cup {k} |-> IF x = k THEN Append(ValuesGet(m, k), v) ELSE m[x]]

\* url.Values.Set / http.Header.Set: replace the key's list.
ValuesSet(m, k, v) ==
    [x \in DOMAIN m \cup {k} |-> IF x = k THEN <<v>> ELSE m[x]]

\* textproto.CanonicalMIMEHeaderKey, as http.Header.Set applies it to the key.
CanonicalHeaderKey(k) ==
    CASE k = "content-type" -> "Content-Type"
      [] k = "authorization" -> "Authorization"
      [] OTHER -> k

\* url.QueryEscape.
QueryEscape(s) == IF s = "x y" THEN "x+y" ELSE s

RECURSIVE EncodeValuesOf(_, _, _)
\* The k=v pairs of one key, each preceded by "&".
EncodeValuesOf(k, vs, i) ==
    IF i > Len(vs) THEN <<>>
    ELSE <<"&", QueryEscape(k), "=", QueryEscape(vs[i])>> \o EncodeValuesOf(k, vs, i + 1)

RECURSIVE EncodeFrom(_, _)
EncodeFrom(m, i) ==
    IF i > Len(KeysSorted) THEN <<>>
    ELSE EncodeValuesOf(KeysSorted[i], ValuesGet(m, KeysSorted[i]), 1) \o EncodeFrom(m, i + 1)

\* url.Values.Encode: "k=v&k=v2&k2=v" sorted by key, without the leading "&".
ValuesEncode(m) ==
    LET all == EncodeFrom(m, 1)
    IN  IF all = <<>> THEN <<>> ELSE Tail(all)

-----------------------------------------------------------------------------
(* strings.Split and url.Parse / URL.String on token sequences *)

RECURSIVE SplitFrom(_, _, _, _)
\* strings.Split(s, sep): the pieces between the separators, empty ones kept.
SplitFrom(s, sep, i, cur) ==
    IF i > Len(s) THEN <<cur>>
    ELSE IF s[i] = sep THEN <<cur>> \o SplitFrom(s, sep, i + 1, <<>>)
    ELSE SplitFrom(s, sep, i + 1, Append(cur, s[i]))

Split(s, sep) == SplitFrom(s, sep, 1, <<>>)

\* The string a one-token (or empty) piece stands for.
Str(piece) == IF piece = <<>> THEN "" ELSE piece[1]

IndexOf(s, tok) ==
    IF \E i \in 1..Len(s) : s[i] = tok
    THEN CHOOSE i \in 1..Len(s) : s[i] = tok /\ \A j \in 1..(i - 1) : s[j] # tok
    ELSE 0

\* url.Parse: scheme ":" "//" host path "?" rawquery; an invalid escape is an
\* error and the *url.URL returned is nil.
ParseUrl(s) ==
    LET Authority(scheme, beforeQ, rawQuery) ==
            LET Rest(hasAuth, afterAuth) ==
                    LET Parts(hasHost) ==
                            [err |-> FALSE,
                             Scheme |-> scheme,
                             Host |-> IF hasHost THEN afterAuth[1] ELSE "",
                             Path |-> Str(IF hasHost THEN Tail(afterAuth) ELSE afterAuth),
                             RawQuery |-> rawQuery]
                    IN  Parts(hasAuth /\ Len(afterAuth) >= 1 /\ afterAuth[1] \notin PathTokens)
            IN  IF Len(beforeQ) >= 1 /\ beforeQ[1] = "//"
                THEN Rest(TRUE, Tail(beforeQ))
                ELSE Rest(FALSE, beforeQ)
        Query(scheme, rest, q) ==
            IF q = 0 THEN Authority(scheme, rest, <<>>)
            ELSE Authority(scheme, SubSeq(rest, 1, q - 1), SubSeq(rest, q + 1, Len(rest)))
        Scheme(scheme, rest) == Query(scheme, rest, IndexOf(rest, "?"))
    IN  IF \E i \in 1..Len(s) : s[i] = BadEscape
        THEN [err |-> TRUE, Scheme |-> "", Host |-> "", Path |-> "", RawQuery |-> <<>>]
        ELSE IF Len(s) >= 2 /\ s[2] = ":"
        THEN Scheme(s[1], SubSeq(s, 3, Len(s)))
        ELSE Scheme("", s)

\* URL.String.
UrlString(u) ==
    (IF u.Scheme # "" THEN <<u.Scheme, ":">> ELSE <<>>)
    \o (IF u.Host # "" THEN <<"//", u.Host>> ELSE <<>>)
    \o (IF u.Path # "" THEN <<u.Path>> ELSE <<>>)
    \o (IF u.RawQuery # <<>> THEN <<"?">> \o u.RawQuery ELSE <<>>)

-----------------------------------------------------------------------------
(* The descriptor *)

NewRequestValue ==
    [Scheme |-> "http", Host |-> "", Path |-> "",
     QueryString |-> EmptyValues, Header |-> EmptyValues, PostData |-> EmptyValues,
     BasicAuthUsername |-> "", BasicAuthPassword |-> "",
     Verb |-> "GET", ContentType |-> "", Timeout |-> 0,
     TLSCertPath |-> "", TLSKeyPath |-> "", Body |-> ""]

\* What an operation hands back. kind: "none" (nothing ran yet), "ok", "error",
\* "panic".
NoReq == [isNil |-> TRUE, Method |-> "", URL |-> <<>>, Header |-> EmptyValues,
          Body |-> <<>>, hasBody |-> FALSE]

\* What an operation hands back to its caller, and what it did on the way.
\*   kind     "none" (nothing ran yet), "ok", "error", "panic", "blocked"
\*   req      the *http.Request materialized
\*   status, body, bodyOpen   the response, and whether its body is still open
\*   via      where the response came from: "mock", "transport", "none"
\*   okCalls, errCalls, handled   the handlers' invocations and the bytes given
Result(op, kind, err, req) ==
    [op |-> op, kind |-> kind, err |-> err, req |-> req,
     status |-> 0, body |-> <<>>, bodyOpen |-> FALSE, via |-> "none",
     okCalls |-> 0, errCalls |-> 0, handled |-> <<>>]

BuilderOk == Result("builder", "ok", "", NoReq)
BuilderPanic == Result("builder", "panic", "", NoReq)

Init ==
    /\ hr = NewRequestValue
    /\ calls = 0
    /\ last = Result("none", "none", "", NoReq)
    /\ crashed = FALSE
    /\ mocks = [k \in {} |-> 0]
    /\ pathArgs = <<>>
    /\ combined = <<>>
    /\ lock = "free"
    /\ pc = [t \in Threads |-> Idle]

\* A builder call that sets hr to h and returns it.
Built(h) ==
    /\ ~crashed
    /\ calls < MaxCalls
    /\ hr' = h
    /\ calls' = calls + 1
    /\ last' = BuilderOk
    /\ crashed' = FALSE
    /\ UNCHANGED mocks
    /\ UNCHANGED aux

NewRequest ==
    /\ ~crashed
    /\ hr' = NewRequestValue
    /\ calls' = 0
    /\ last' = BuilderOk
    /\ crashed' = FALSE
    /\ UNCHANGED mocks
    /\ UNCHANGED aux

WithContentType(content_type) == Built([hr EXCEPT !.ContentType = content_type])

WithScheme(scheme) == Built([hr EXCEPT !.Scheme = scheme])

WithHost(host) == Built([hr EXCEPT !.Host = host])

WithPath(path) == Built([hr EXCEPT !.Path = path])

WithHeader(field, value) ==
    Built([hr EXCEPT !.Header = ValuesSet(hr.Header, CanonicalHeaderKey(field), value)])

WithQueryString(field, value) ==
    Built([hr EXCEPT !.QueryString = ValuesAdd(hr.QueryString, field, value)])

WithPostData(field, value) ==
    Built([hr EXCEPT !.PostData = ValuesAdd(hr.PostData, field, value)])

WithBasicAuth(username, password) ==
    Built([hr EXCEPT !.BasicAuthUsername = username, !.BasicAuthPassword = password])

WithTimeout(timeout) == Built([hr EXCEPT !.Timeout = timeout])

WithTLSCert(cert_path) == Built([hr EXCEPT !.TLSCertPath = cert_path])

WithTLSKey(key_path) == Built([hr EXCEPT !.TLSKeyPath = key_path])

WithVerb(verb) == Built([hr EXCEPT !.Verb = verb])

AsGet == Built([hr EXCEPT !.Verb = "GET"])
AsPost == Built([hr EXCEPT !.Verb = "POST"])
AsPut == Built([hr EXCEPT !.Verb = "PUT"])
AsPatch == Built([hr EXCEPT !.Verb = "PATCH"])
AsDelete == Built([hr EXCEPT !.Verb = "DELETE"])

WithRawBody(body) == Built([hr EXCEPT !.Body = body])


\* json.Marshal / xml.Marshal with the error dropped: a value that cannot be
\* marshalled serializes to "".
serializeJson(object) == IF object = "obj" THEN "{json}" ELSE ""
serializeXml(object) == IF object = "obj" THEN "<xml/>" ELSE ""
ObjectInputs == {"obj", "chan"}

WithJsonBody(object) ==
    Built([hr EXCEPT !.Body = serializeJson(object), !.ContentType = "application/json"])

WithXmlBody(object) ==
    Built([hr EXCEPT !.Body = serializeXml(object), !.ContentType = "application/xml"])

RECURSIVE SetParams(_, _, _)
\* The loop of WithUrl over the "&"-separated params: the query built so far and
\* whether key_value[1] was out of range.
SetParams(qs, params, i) ==
    IF i > Len(params) THEN [qs |-> qs, panic |-> FALSE]
    ELSE IF params[i] = <<>> THEN SetParams(qs, params, i + 1)
    ELSE LET key_value == Split(params[i], "=")
         IN  IF Len(key_value) < 2 THEN [qs |-> qs, panic |-> TRUE]
             ELSE SetParams(ValuesSet(qs, Str(key_value[1]), Str(key_value[2])),
                            params, i + 1)

\* hr after WithUrl(url_string), and whether the call panicked on the way (a nil
\* working_url, or a param without "=").
WithUrlValue(h, url_string) ==
    LET Parsed(working_url) ==
            LET Params(set) ==
                    [hr |-> [h EXCEPT !.Scheme = working_url.Scheme,
                                      !.Host = working_url.Host,
                                      !.Path = working_url.Path,
                                      !.QueryString = set.qs],
                     panic |-> set.panic]
            IN  IF working_url.err THEN [hr |-> h, panic |-> TRUE]
                ELSE Params(SetParams(EmptyValues, Split(working_url.RawQuery, "&"), 1))
    IN  Parsed(ParseUrl(url_string))

WithUrl(url_string) ==
    \E r \in {WithUrlValue(hr, url_string)} :
        /\ ~crashed
        /\ calls < MaxCalls
        /\ hr' = r.hr
        /\ calls' = calls + 1
        /\ last' = IF r.panic THEN BuilderPanic ELSE BuilderOk
        /\ crashed' = r.panic
        /\ UNCHANGED mocks
    /\ UNCHANGED aux

-----------------------------------------------------------------------------
(* Materialization *)

createUrl(h) ==
    [Scheme |-> h.Scheme, Host |-> h.Host, Path |-> h.Path,
     RawQuery |-> ValuesEncode(h.QueryString)]

\* The methods net/http accepts: HTTP tokens.
MethodTokens == {"GET", "POST", "PUT", "PATCH", "DELETE"}

\* http.NewRequest(method, urlStr, body): (nil, err) for a method that is no
\* token or a URL that does not parse.
NewHttpRequest(method, urlStr, hasBody, body) ==
    LET Parsed(u) ==
            IF method \notin MethodTokens \/ u.err THEN NoReq
            ELSE [isNil |-> FALSE, Method |-> method, URL |-> UrlString(u),
                  Header |-> EmptyValues, Body |-> body, hasBody |-> hasBody]
    IN  Parsed(ParseUrl(urlStr))

\* req.SetBasicAuth: "Basic " + base64(username + ":" + password).
BasicAuthValue(username, password) ==
    CASE username = "user" /\ password = "pw" -> "Basic dXNlcjpwdw=="
      [] username = "user" /\ password = "" -> "Basic dXNlcjo="
      [] username = "" /\ password = "pw" -> "Basic OnB3"
      [] OTHER -> "Basic Og=="

ApplyHeadersIfAbsent(reqHeader, header) ==
    [k \in DOMAIN reqHeader \cup DOMAIN header |->
        IF k \in DOMAIN reqHeader THEN reqHeader[k] ELSE <<header[k][Len(header[k])]>>]

\* The loop over hr.Header: req.Header.Set(key, value) for each value in turn.
ApplyHeaders(reqHeader, header) ==
    [k \in DOMAIN reqHeader \cup DOMAIN header |->
        IF k \in DOMAIN header THEN <<header[k][Len(header[k])]>> ELSE reqHeader[k]]

FormContentType == "application/x-www-form-urlencoded"

\* "hr.Body != "" && hr.PostData != nil && len(hr.PostData) > 0".
ConflictingBodyOr(h) ==
    h.Body # "" \/ (h.PostData # EmptyValues /\ Cardinality(DOMAIN h.PostData) > 0)

ConflictingBody(h) ==
    h.Body # "" /\ h.PostData # EmptyValues /\ Cardinality(DOMAIN h.PostData) > 0

UsesBasicAuthAny(h) == h.BasicAuthUsername # "" \/ h.BasicAuthPassword # ""

\* "if hr.BasicAuthUsername != """.
UsesBasicAuth(h) == h.BasicAuthUsername # ""

createHttpRequest(h) ==
    LET conflict == ConflictingBody(h)
        \* From "if hr.BasicAuthUsername" on, req being what the branches left.
        Headers(req) ==
            LET Custom(h2) ==
                    Result("createHttpRequest", "ok", "",
                           [req EXCEPT !.Header = ApplyHeaders(h2, h.Header)])
                Override(h1) ==
                    Custom(IF h.ContentType # ""
                           THEN ValuesSet(h1, "Content-Type", h.ContentType) ELSE h1)
            IN  IF req.isNil
                THEN \* a method call or field access on the nil *http.Request
                     IF UsesBasicAuth(h) \/ h.ContentType # "" \/ DOMAIN h.Header # {}
                     THEN Result("createHttpRequest", "panic", "", NoReq)
                     ELSE Result("createHttpRequest", "ok", "", NoReq)
                ELSE Override(IF UsesBasicAuth(h)
                              THEN ValuesSet(req.Header, "Authorization",
                                             BasicAuthValue(h.BasicAuthUsername,
                                                            h.BasicAuthPassword))
                              ELSE req.Header)
        Post(post_req) ==
            IF post_req.isNil THEN Result("createHttpRequest", "error", "newrequest", NoReq)
            ELSE Headers([post_req EXCEPT
                            !.Header = ValuesSet(@, "Content-Type", FormContentType)])
        Build(working_url) ==
            IF h.Body # "" THEN Headers(NewHttpRequest(h.Verb, working_url, TRUE, <<h.Body>>))
            ELSE IF h.PostData # EmptyValues
                 THEN Post(NewHttpRequest(h.Verb, working_url, TRUE, ValuesEncode(h.PostData)))
                 ELSE Headers(NewHttpRequest(h.Verb, working_url, FALSE, <<>>))
    IN  IF conflict THEN Result("createHttpRequest", "error", "conflict", NoReq)
        ELSE Build(UrlString(createUrl(h)))

\* A caller materializes the descriptor.
Materialize ==
    \E r \in {createHttpRequest(hr)} :
        /\ ~crashed
        /\ last' = r
        /\ crashed' = (r.kind = "panic")
        /\ UNCHANGED <<hr, calls, mocks>>
        /\ UNCHANGED aux

-----------------------------------------------------------------------------

Builder ==
    \/ \E s \in SchemeInputs : WithScheme(s)
    \/ \E s \in HostInputs : WithHost(s)
    \/ \E s \in PathInputs : WithPath(s)
    \/ \E u \in UrlInputs : WithUrl(u)
    \/ \E k \in HeaderInputs, v \in HeaderValues : WithHeader(k, v)
    \/ \E k \in Keys, v \in Vals : WithQueryString(k, v)
    \/ \E k \in Keys, v \in Vals : WithPostData(k, v)
    \/ \E a \in AuthInputs : WithBasicAuth(a[1], a[2])
    \/ \E t \in TimeoutInputs : WithTimeout(t)
    \/ \E p \in CertInputs : WithTLSCert(p)
    \/ \E p \in KeyFileInputs : WithTLSKey(p)
    \/ \E v \in VerbInputs : WithVerb(v)
    \/ AsGet \/ AsPost \/ AsPut \/ AsPatch \/ AsDelete
    \/ \E c \in ContentTypeInputs : WithContentType(c)
    \/ \E o \in ObjectInputs : WithJsonBody(o)
    \/ \E o \in ObjectInputs : WithXmlBody(o)
    \/ \E b \in BodyInputs : WithRawBody(b)

Next ==
    \/ Builder
    \/ NewRequest
    \/ Materialize

Spec == Init /\ [][Next]_vars

-----------------------------------------------------------------------------
(* Transport resolution *)

isEmpty(str) == str = ""

requiresCustomTransport(h) == ~isEmpty(h.TLSCertPath) /\ ~isEmpty(h.TLSKeyPath)

\* tls.LoadX509KeyPair reads both files: it fails unless both exist and parse.
LoadX509KeyPairFails(cert_path, key_path) ==
    ~(cert_path = "good.crt" /\ key_path = "good.key")

\* The transport built, or the load error.
createHttpTransport(h) ==
    LET loads == ~isEmpty(h.TLSCertPath) /\ ~isEmpty(h.TLSKeyPath)
        failed == loads /\ LoadX509KeyPairFails(h.TLSCertPath, h.TLSKeyPath)
    IN  [err |-> failed,
         TLSHandshakeTimeout |-> h.Timeout,
         ResponseHeaderTimeout |-> h.Timeout,
         DialTimeout |-> h.Timeout,
         hasCertificate |-> loads /\ ~failed]

\* "var client *http.Client": the nil pointer FetchRawResponse declares.
NilClient == [isNil |-> TRUE, Timeout |-> 0, customTransport |-> FALSE]

\* What the network does with a call that reaches it: a response, a response
\* whose body cannot be read to its end, a refused connection, no answer.
NetOutcomes == {"ok", "badbody", "refused", "hang"}

\* client.Do(req): a method of the nil *http.Client reads its fields and panics;
\* a real client gives what the network gives, cut off by client.Timeout.
ClientDo(client, net) ==
    IF client.isNil THEN [kind |-> "panic", err |-> "", status |-> 0, body |-> <<>>]
    ELSE CASE net \in {"ok", "badbody"} -> [kind |-> "ok", err |-> "", status |-> 200, body |-> <<"net", 0>>]
           [] net = "refused" -> [kind |-> "error", err |-> "transport", status |-> 0, body |-> <<>>]
           [] OTHER -> IF client.Timeout # 0
                       THEN [kind |-> "error", err |-> "timeout", status |-> 0, body |-> <<>>]
                       ELSE [kind |-> "blocked", err |-> "", status |-> 0, body |-> <<>>]

-----------------------------------------------------------------------------
(* The mock registry *)

\* The length of the body list a stateful responder closes over.
MaxFetches == 3

\* A responder: a closure that yields a MockedResponse per invocation. A stateful
\* one walks a list of bodies (ids 0, 1, 2, ...) with its private index idx; a
\* stateless one yields the same body each time.
Responder(stateful, status) ==
    [stateful |-> stateful, status |-> status, idx |-> 0]

ResponderInputs ==
    {Responder(FALSE, 200), Responder(FALSE, 201), Responder(TRUE, 200)}

\* Invoking the responder: the MockedResponse, and the responder afterwards.
Invoke(r) ==
    [status |-> r.status,
     body |-> IF r.stateful THEN <<"id", r.idx>> ELSE <<"fixed", 0>>,
     next |-> IF r.stateful THEN [r EXCEPT !.idx = @ + 1] ELSE r]

\* (verb, url) keys tests register: the URL of a descriptor built by WithUrl with
\* its query encoded, and the same URL with the query as typed.
MockKeys ==
    { <<"GET", <<"http", ":", "//", "h1", "/p", "?", "a", "=", "1", "&", "b", "=", "x+y">> >>,
      <<"GET", <<"http", ":", "//", "h1", "/p", "?", "a", "=", "1", "&", "b", "=", "x y">> >> }

RegistryOk == Result("registry", "ok", "", NoReq)

MockResponseKeepFirst(key, responder) ==
    /\ ~crashed
    /\ mocks' = [k \in DOMAIN mocks \cup {key} |->
                    IF k \in DOMAIN mocks THEN mocks[k] ELSE responder]
    /\ last' = RegistryOk
    /\ UNCHANGED <<hr, calls, crashed>>
    /\ UNCHANGED aux

MockResponse(key, responder) ==
    /\ ~crashed
    /\ mocks' = [k \in DOMAIN mocks \cup {key} |-> IF k = key THEN responder ELSE mocks[k]]
    /\ last' = RegistryOk
    /\ UNCHANGED <<hr, calls, crashed>>
    /\ UNCHANGED aux

ClearMockedResponses ==
    /\ ~crashed
    /\ mocks' = [k \in {} |-> 0]
    /\ last' = RegistryOk
    /\ UNCHANGED <<hr, calls, crashed>>
    /\ UNCHANGED aux

\* The key a fetch of h looks up: (verb, full URL with the encoded query).
MockKeyOf(h) == <<h.Verb, UrlString(createUrl(h))>>

-----------------------------------------------------------------------------
(* Dispatch / fetch *)

\* FetchRawResponse on descriptor h with registry reg: what it returns (res) and
\* the registry afterwards. The request is built, the client resolved, the
\* registry consulted, and only then the transport used.
fetchRawResponse(h, reg, net) ==
    LET Out(c, kind, err) ==
            [res |-> Result("FetchRawResponse", kind, err, c.req), mocks |-> reg]
        Mocked(c, key, m) ==
            [res |-> [Result("FetchRawResponse", "ok", "", c.req) EXCEPT
                        !.status = m.status, !.body = m.body,
                        !.bodyOpen = TRUE, !.via = "mock"],
             mocks |-> [reg EXCEPT ![key] = m.next]]
        Done(c, d) ==
            [res |-> [Result("FetchRawResponse", d.kind, d.err, c.req) EXCEPT
                        !.status = d.status, !.body = d.body,
                        !.bodyOpen = (d.kind = "ok"),
                        !.via = IF d.kind = "panic" THEN "none" ELSE "transport"],
             mocks |-> reg]
        Send(c, key) ==
            IF key \in DOMAIN reg THEN Mocked(c, key, Invoke(reg[key]))
            \* req.URL, req being nil
            ELSE IF c.req.isNil THEN Out(c, "panic", "")
            ELSE Done(c, ClientDo(NilClient, net))
        Resolve(c) ==
            IF requiresCustomTransport(h)
            THEN IF createHttpTransport(h).err THEN Out(c, "error", "tlsload")
                 \* client.Transport = transport, client being nil
                 ELSE Out(c, "panic", "")
            \* client.Timeout = hr.Timeout, client being nil
            ELSE IF h.Timeout # 0 THEN Out(c, "panic", "")
            ELSE Send(c, MockKeyOf(h))
        Built0(c) ==
            IF c.kind # "ok" THEN Out(c, c.kind, c.err) ELSE Resolve(c)
    IN  Built0(createHttpRequest(h))

\* The body list of a stateful responder is not read past its end.
CanFetch ==
    /\ ~crashed
    /\ MockKeyOf(hr) \in DOMAIN mocks => mocks[MockKeyOf(hr)].idx < MaxFetches

Fetched(res, reg) ==
    /\ last' = res
    /\ mocks' = reg
    /\ crashed' = (res.kind = "panic")
    /\ UNCHANGED <<hr, calls>>
    /\ UNCHANGED aux

FetchRawResponse(net) ==
    \E f \in {fetchRawResponse(hr, mocks, net)} : CanFetch /\ Fetched(f.res, f.mocks)

\* Execute drops the response it gets.
Execute(net) ==
    \E f \in {fetchRawResponse(hr, mocks, net)} :
        CanFetch /\ Fetched([f.res EXCEPT !.op = "Execute"], f.mocks)

handleFetchAny2xx(h, reg, net, okFails, errFails) ==
    LET Dispatch(res, isOk, handler_err) ==
            [res EXCEPT !.op = "handleFetch",
                        !.kind = IF handler_err THEN "error" ELSE "ok",
                        !.err = IF handler_err THEN "decode" ELSE "",
                        !.okCalls = IF isOk THEN 1 ELSE 0,
                        !.errCalls = IF isOk THEN 0 ELSE 1,
                        !.handled = res.body,
                        !.bodyOpen = FALSE]
        Fetched0(f) ==
            [res |-> IF f.res.kind # "ok"
                     THEN [f.res EXCEPT !.op = "handleFetch", !.status = 0]
                     ELSE IF net = "badbody" /\ f.res.via = "transport"
                     THEN [f.res EXCEPT !.op = "handleFetch", !.kind = "error",
                                        !.err = "read", !.status = 0, !.bodyOpen = FALSE]
                     ELSE IF f.res.status \in 200..299
                     THEN Dispatch(f.res, TRUE, okFails)
                     ELSE Dispatch(f.res, FALSE, errFails),
             mocks |-> f.mocks]
    IN  Fetched0(fetchRawResponse(h, reg, net))

\* handleFetch with handlers that fail (return a decode error) or not.
handleFetch(h, reg, net, okFails, errFails) ==
    LET Dispatch(res, isOk, handler_err) ==
            [res EXCEPT !.op = "handleFetch",
                        !.kind = IF handler_err THEN "error" ELSE "ok",
                        !.err = IF handler_err THEN "decode" ELSE "",
                        !.okCalls = IF isOk THEN 1 ELSE 0,
                        !.errCalls = IF isOk THEN 0 ELSE 1,
                        !.handled = res.body,
                        !.bodyOpen = FALSE]
        Fetched0(f) ==
            [res |-> IF f.res.kind # "ok"
                     THEN [f.res EXCEPT !.op = "handleFetch", !.status = 0]
                     \* ioutil.ReadAll fails on a network stream that breaks; never
                     \* on the bytes of a mocked response.
                     ELSE IF net = "badbody" /\ f.res.via = "transport"
                     THEN [f.res EXCEPT !.op = "handleFetch", !.kind = "error",
                                        !.err = "read", !.status = 0, !.bodyOpen = FALSE]
                     ELSE IF f.res.status = 200
                     THEN Dispatch(f.res, TRUE, okFails)
                     ELSE Dispatch(f.res, FALSE, errFails),
             mocks |-> f.mocks]
    IN  Fetched0(fetchRawResponse(h, reg, net))

HandleFetch(net, okFails, errFails) ==
    \E f \in {handleFetch(hr, mocks, net, okFails, errFails)} :
        CanFetch /\ Fetched(f.res, f.mocks)

\* FetchString reads the body and closes it.
FetchString(net) ==
    \E f \in {fetchRawResponse(hr, mocks, net)} :
        /\ CanFetch
        /\ Fetched(IF f.res.kind # "ok" THEN [f.res EXCEPT !.op = "FetchString"]
                   ELSE IF net = "badbody" /\ f.res.via = "transport"
                        THEN [f.res EXCEPT !.op = "FetchString", !.kind = "error",
                                           !.err = "read", !.bodyOpen = FALSE]
                        ELSE [f.res EXCEPT !.op = "FetchString", !.bodyOpen = FALSE],
                   f.mocks)

-----------------------------------------------------------------------------
(* The fetch layer under a registry: descriptors built by a few calls. *)

FetchUrlInputs ==
    { <<"http", ":", "//", "h1", "/p", "?", "a", "=", "1", "&", "b", "=", "x y">> }

FetchBuilder ==
    \/ \E u \in FetchUrlInputs : WithUrl(u)
    \/ WithTimeout(500)
    \/ \E p \in {"good.crt", "missing.crt"} : WithTLSCert(p)
    \/ WithTLSKey("good.key")
    \/ WithVerb("B AD")
    \/ AsPost
    \/ WithRawBody("raw")
    \/ WithPostData("a", "1")
    \/ WithHeader("X-Dep", "hv")

NextFetch ==
    \/ FetchBuilder
    \/ NewRequest
    \/ Materialize
    \/ \E k \in MockKeys, r \in ResponderInputs : MockResponse(k, r)
    \/ ClearMockedResponses
    \/ \E net \in NetOutcomes : FetchRawResponse(net)
    \/ \E net \in NetOutcomes : Execute(net)
    \/ \E net \in NetOutcomes : FetchString(net)
    \* the handler that runs fails, or not
    \/ \E net \in NetOutcomes, fails \in BOOLEAN : HandleFetch(net, fails, ~fails)

SpecFetch == Init /\ [][NextFetch]_vars

-----------------------------------------------------------------------------
(* CombinePathComponents: path strings are sequences of characters *)

\* Segments of at most MaxSegLen characters, at most MaxSegments per call.
MaxSegLen == 3
MaxSegments == 2

PathChars == {"/", "f"}

SegmentInputs == UNION {[1..n -> PathChars] : n \in 0..MaxSegLen}

ComponentInputs == UNION {[1..n -> SegmentInputs] : n \in 0..MaxSegments}

HasPrefix(s, prefix) == Len(s) >= 1 /\ s[1] = prefix

HasSuffix(s, suffix) == Len(s) >= 1 /\ s[Len(s)] = suffix

\* strings.TrimPrefix / strings.TrimSuffix with a one-character argument: one
\* occurrence is removed.
TrimPrefix(s, prefix) == IF HasPrefix(s, prefix) THEN Tail(s) ELSE s

TrimSuffix(s, suffix) == IF HasSuffix(s, suffix) THEN SubSeq(s, 1, Len(s) - 1) ELSE s

RECURSIVE CombineFrom(_, _, _)
\* The loop of CombinePathComponents from the index-th component on.
CombineFrom(comps, index, fullPath) ==
    IF index > Len(comps) THEN fullPath
    ELSE CombineFrom(comps, index + 1,
                     fullPath \o TrimSuffix(TrimPrefix(comps[index], "/"), "/")
                              \o (IF index # Len(comps) THEN <<"/">> ELSE <<>>))

CombinePathComponents(comps) == CombineFrom(comps, 1, <<>>)

InitPath ==
    /\ hr = NewRequestValue
    /\ calls = 0
    /\ last = Result("none", "none", "", NoReq)
    /\ crashed = FALSE
    /\ mocks = [k \in {} |-> 0]
    /\ pathArgs \in ComponentInputs
    /\ combined = <<>>
    /\ lock = "free"
    /\ pc = [t \in Threads |-> Idle]

\* CombinePathComponents(pathArgs...)
Combine ==
    /\ combined = <<>>
    /\ combined' = <<CombinePathComponents(pathArgs)>>
    /\ UNCHANGED <<hr, calls, last, crashed, mocks, pathArgs, lock, pc>>

\* CombinePathComponents on the string the first call returned.
Recombine ==
    /\ Len(combined) = 1
    /\ combined' = Append(combined, CombinePathComponents(<<combined[1]>>))
    /\ UNCHANGED <<hr, calls, last, crashed, mocks, pathArgs, lock, pc>>

NextPath ==
    \/ Combine
    \/ Recombine

SpecPath == InitPath /\ [][NextPath]_vars

-----------------------------------------------------------------------------
(* The registry under concurrent use: one mutex guards the map *)

RegistryOps == {"MockResponse", "ClearMockedResponses", "lookup"}

\* mutex.Lock() at the start of MockResponse(key, ...), ClearMockedResponses()
\* or the lookup of a fetch: the thread waits until the mutex is free.
Lock(t, op, key) ==
    /\ pc[t].at = "idle"
    /\ lock = "free"
    /\ lock' = t
    /\ pc' = [pc EXCEPT ![t] = [Idle EXCEPT !.at = "locked", !.op = op, !.key = key]]
    /\ UNCHANGED <<hr, calls, last, crashed, mocks, pathArgs, combined>>

\* The map read or written by the operation.
Apply(t, responder) ==
    /\ pc[t].at = "locked"
    /\ mocks' = CASE pc[t].op = "MockResponse" ->
                       [k \in DOMAIN mocks \cup {pc[t].key} |->
                           IF k = pc[t].key THEN responder ELSE mocks[k]]
                  [] pc[t].op = "ClearMockedResponses" -> [k \in {} |-> 0]
                  [] OTHER -> mocks
    /\ pc' = [pc EXCEPT ![t].at = "applied",
                        ![t].found = (pc[t].op = "lookup" /\ pc[t].key \in DOMAIN mocks)]
    /\ UNCHANGED <<hr, calls, last, crashed, pathArgs, combined, lock>>

UnlockAfterResponder(t) ==
    /\ pc[t].at = "applied"
    /\ lock' = IF pc[t].found THEN lock ELSE "free"
    /\ pc' = [pc EXCEPT ![t] = IF pc[t].found THEN [pc[t] EXCEPT !.at = "invoke"] ELSE Idle]
    /\ UNCHANGED <<hr, calls, last, crashed, mocks, pathArgs, combined>>

\* mutex.Unlock(): a lookup that found a responder goes on to call it, every
\* other operation (the responder's own call included) returns.
Unlock(t) ==
    /\ pc[t].at = "applied"
    /\ lock' = "free"
    /\ pc' = [pc EXCEPT ![t] = IF pc[t].found THEN [pc[t] EXCEPT !.at = "invoke"] ELSE Idle]
    /\ UNCHANGED <<hr, calls, last, crashed, mocks, pathArgs, combined>>

\* The responder is called; it returns at once, or it calls the registry.
InvokeResponder(t, touches) ==
    /\ pc[t].at = "invoke"
    /\ pc' = [pc EXCEPT ![t] = IF touches THEN [pc[t] EXCEPT !.at = "responder"] ELSE Idle]
    /\ UNCHANGED <<hr, calls, last, crashed, mocks, pathArgs, combined, lock>>

\* mutex.Lock() of the registry operation a responder calls.
ResponderLock(t, op, key) ==
    /\ pc[t].at = "responder"
    /\ lock = "free"
    /\ lock' = t
    /\ pc' = [pc EXCEPT ![t] = [Idle EXCEPT !.at = "locked", !.op = op, !.key = key,
                                            !.inner = TRUE]]
    /\ UNCHANGED <<hr, calls, last, crashed, mocks, pathArgs, combined>>

NextRegistry ==
    \/ \E t \in Threads, op \in RegistryOps, k \in MockKeys : Lock(t, op, k)
    \/ \E t \in Threads, r \in ResponderInputs : Apply(t, r)
    \/ \E t \in Threads : Unlock(t)
    \/ \E t \in Threads, touches \in BOOLEAN : InvokeResponder(t, touches)
    \/ \E t \in Threads, op \in {"MockResponse", "ClearMockedResponses"}, k \in MockKeys :
           ResponderLock(t, op, k)

SpecRegistry == Init /\ [][NextRegistry]_vars

-----------------------------------------------------------------------------
(* Properties *)

\* The operations that fetch.
FetchOps == {"FetchRawResponse", "Execute", "FetchString", "handleFetch"}

\* C1: a fetch of a descriptor that materializes to a registered (verb, URL)
\* is answered by the responder, with its status, and not by the transport; a
\* fetch of a descriptor whose key has no entry (none registered, or the
\* registry cleared) goes to the real transport.
C1_MockedElseTransport ==
    (last.op \in FetchOps /\ ~last.req.isNil /\ ~requiresCustomTransport(hr)) =>
        IF <<last.req.Method, last.req.URL>> \in DOMAIN mocks
        THEN /\ last.via = "mock"
             /\ last.op \in {"FetchRawResponse", "handleFetch"} =>
                    last.status = mocks[<<last.req.Method, last.req.URL>>].status
        ELSE last.via = "transport"

\* C2: each fetch of a descriptor whose key holds a stateful responder invokes
\* the responder exactly once and returns its next body: the k-th fetch returns
\* the body of id k-1, and the responder has advanced by one.
C2_StatefulOncePerFetch ==
    [][(/\ last'.op \in FetchOps
        /\ ~createHttpRequest(hr).req.isNil
        /\ ~requiresCustomTransport(hr)
        /\ MockKeyOf(hr) \in DOMAIN mocks
        /\ mocks[MockKeyOf(hr)].stateful) =>
            /\ last'.kind \in {"ok", "error"}
            /\ last'.via = "mock"
            /\ last'.body = <<"id", mocks[MockKeyOf(hr)].idx>>
            /\ mocks'[MockKeyOf(hr)].idx = mocks[MockKeyOf(hr)].idx + 1]_vars

\* C3: when handleFetch has read a response, exactly one handler ran, once, on
\* the raw body: the ok handler iff the response's status is 200; the status
\* handed back is the response's, also when the handler returned a decode error.
C3_OneHandlerByStatus ==
    (last.op = "handleFetch" /\ last.via = "mock" /\ last.err # "read") =>
        LET responder == mocks[<<last.req.Method, last.req.URL>>]
        IN  /\ last.status = responder.status
            /\ last.okCalls + last.errCalls = 1
            /\ last.okCalls = 1 <=> responder.status = 200
            /\ last.handled = IF responder.stateful THEN <<"id", responder.idx - 1>>
                              ELSE <<"fixed", 0>>
            /\ last.kind = "error" => last.err = "decode"

\* A 201 response went to the error handler, which failed to decode it.
C3_Witness ==
    /\ last.op = "handleFetch"
    /\ last.via = "mock"
    /\ last.status = 201
    /\ last.errCalls = 1
    /\ last.err = "decode"

C5_NeverCrashes ==
    last.op \in FetchOps \cup {"createHttpRequest"} => last.kind \in {"ok", "error"}

\* C6: every builder call, WithUrl on a malformed URL or a pair without "="
\* included, completes and returns the descriptor.
C6_BuildersNeverFail ==
    last.op = "builder" => last.kind = "ok"

\* C7: with a non-zero timeout and no TLS pair, a fetch that reached the client
\* setup returns to its caller (a response or an error, a timeout error if the
\* round trip does not complete); it neither blocks nor crashes.
C7_TimeoutReturns ==
    (/\ last.op \in FetchOps
     /\ hr.Timeout # 0
     /\ ~requiresCustomTransport(hr)
     /\ ~last.req.isNil) =>
        last.kind \in {"ok", "error"}

\* C8: a WithUrl call that completes replaces scheme, host, path and query by
\* the URL's: each key then holds every value the URL's query gives it, in
\* order, and nothing else; every other field is unchanged.
C8_WithUrlReplaces ==
    [][\A u \in UrlInputs :
        (WithUrl(u) /\ last'.kind = "ok") =>
            LET RECURSIVE ValuesOf(_, _, _)
                ValuesOf(params, k, i) ==
                    IF i > Len(params) THEN <<>>
                    ELSE (IF Len(Split(params[i], "=")) = 2
                             /\ Str(Split(params[i], "=")[1]) = k
                          THEN <<Str(Split(params[i], "=")[2])>>
                          ELSE <<>>) \o ValuesOf(params, k, i + 1)
            IN  /\ hr'.Scheme = ParseUrl(u).Scheme
                /\ hr'.Host = ParseUrl(u).Host
                /\ hr'.Path = ParseUrl(u).Path
                /\ DOMAIN hr'.QueryString \subseteq Keys
                /\ \A k \in Keys :
                       ValuesGet(hr'.QueryString, k)
                           = ValuesOf(Split(ParseUrl(u).RawQuery, "&"), k, 1)
                /\ \A f \in DOMAIN hr \ {"Scheme", "Host", "Path", "QueryString"} :
                       hr'[f] = hr[f]]_vars

\* C9: a WithQueryString or WithPostData call appends its value to the values
\* of its key and leaves the values of every other key as they were, so the
\* values of a key are those passed for it, in call order.
C9_Additive ==
    [][\A k \in Keys, v \in Vals :
        /\ WithQueryString(k, v) =>
               \A k2 \in Keys :
                   ValuesGet(hr'.QueryString, k2)
                       = IF k2 = k THEN Append(ValuesGet(hr.QueryString, k2), v)
                         ELSE ValuesGet(hr.QueryString, k2)
        /\ WithPostData(k, v) =>
               \A k2 \in Keys :
                   ValuesGet(hr'.PostData, k2)
                       = IF k2 = k THEN Append(ValuesGet(hr.PostData, k2), v)
                         ELSE ValuesGet(hr.PostData, k2)]_vars

\* Two values were passed for one post-form key and a third call added a query
\* value: all are stored, in call order.
C9_Witness ==
    /\ last.op = "builder"
    /\ ValuesGet(hr.PostData, "a") = <<"1", "x y">>
    /\ ValuesGet(hr.QueryString, "b") = <<"1">>

\* C10: on the materialized request, Content-Type is the WithHeader value if
\* one is set, else the content-type override if set, else the form-encoded
\* default when post-form data is sent; every WithHeader header is on the
\* request with the value given, whatever was computed for that name.
C10_HeaderPrecedence ==
    (last.op = "createHttpRequest" /\ last.kind = "ok" /\ ~last.req.isNil) =>
        /\ ValuesGet(last.req.Header, "Content-Type") =
               IF "Content-Type" \in DOMAIN hr.Header THEN hr.Header["Content-Type"]
               ELSE IF hr.ContentType # "" THEN <<hr.ContentType>>
               ELSE IF hr.Body = "" /\ hr.PostData # EmptyValues THEN <<FormContentType>>
               ELSE <<>>
        /\ \A k \in DOMAIN hr.Header : ValuesGet(last.req.Header, k) = hr.Header[k]

\* All three sources of a Content-Type are set and the request was
\* materialized.
C10_Witness ==
    /\ last.op = "createHttpRequest"
    /\ last.kind = "ok"
    /\ ~last.req.isNil
    /\ hr.PostData # EmptyValues
    /\ hr.ContentType # ""
    /\ "Content-Type" \in DOMAIN hr.Header

\* C11 (as stated): the materialized request carries the basic-auth
\* Authorization header of the configured username and password when the
\* username is non-empty, and no basic-auth header when it is empty.
C11_BasicAuthHeader ==
    (last.op = "createHttpRequest" /\ last.kind = "ok" /\ ~last.req.isNil) =>
        LET auth == ValuesGet(last.req.Header, "Authorization")
        IN  /\ (hr.BasicAuthUsername = "user" /\ hr.BasicAuthPassword = "pw") =>
                   auth = <<"Basic dXNlcjpwdw==">>
            /\ (hr.BasicAuthUsername = "user" /\ hr.BasicAuthPassword = "") =>
                   auth = <<"Basic dXNlcjo=">>
            /\ hr.BasicAuthUsername = "" =>
                   auth \notin {<<"Basic dXNlcjpwdw==">>, <<"Basic dXNlcjo=">>,
                                <<"Basic OnB3">>, <<"Basic Og==">>}

\* C11 (amended): unless WithHeader set an Authorization header, which is then
\* the one carried, the materialized request carries the basic-auth header of
\* username and password when the username is non-empty and no Authorization
\* header at all when it is empty.
C11_BasicAuthUnlessHeader ==
    (last.op = "createHttpRequest" /\ last.kind = "ok" /\ ~last.req.isNil) =>
        LET auth == ValuesGet(last.req.Header, "Authorization")
        IN  IF "Authorization" \in DOMAIN hr.Header
            THEN auth = hr.Header["Authorization"]
            ELSE /\ (hr.BasicAuthUsername = "user" /\ hr.BasicAuthPassword = "pw") =>
                        auth = <<"Basic dXNlcjpwdw==">>
                 /\ (hr.BasicAuthUsername = "user" /\ hr.BasicAuthPassword = "") =>
                        auth = <<"Basic dXNlcjo=">>
                 /\ hr.BasicAuthUsername = "" => auth = <<>>

\* A request was materialized for a descriptor with username and password and
\* carries their encoding.
C11_Witness ==
    /\ last.op = "createHttpRequest"
    /\ last.kind = "ok"
    /\ hr.BasicAuthUsername = "user"
    /\ hr.BasicAuthPassword = "pw"
    /\ ValuesGet(last.req.Header, "Authorization") = <<"Basic dXNlcjpwdw==">>

\* C14: every configuration call returns the descriptor and changes only the
\* fields its method sets; a single-valued field then holds the value of that
\* call (the verb after AsGet is GET, whatever As* came before); a new
\* descriptor has scheme http and verb GET.
C14_BuildersSetOnlyTheirFields ==
    [][/\ (last'.op = "builder" /\ calls' = calls + 1) =>
            /\ last'.kind = "ok"
            /\ \E fields \in {{"ContentType"}, {"Scheme"}, {"Host"}, {"Path"},
                              {"Header"}, {"QueryString"}, {"PostData"},
                              {"BasicAuthUsername", "BasicAuthPassword"},
                              {"Timeout"}, {"TLSCertPath"}, {"TLSKeyPath"},
                              {"Verb"}, {"Body"}, {"Body", "ContentType"},
                              {"Scheme", "Host", "Path", "QueryString"}} :
                   \A f \in DOMAIN hr \ fields : hr'[f] = hr[f]
       /\ AsGet => hr'.Verb = "GET"
       /\ AsPost => hr'.Verb = "POST"
       /\ AsPut => hr'.Verb = "PUT"
       /\ AsPatch => hr'.Verb = "PATCH"
       /\ AsDelete => hr'.Verb = "DELETE"
       /\ \A v \in VerbInputs : WithVerb(v) => hr'.Verb = v
       /\ \A v \in SchemeInputs : WithScheme(v) => hr'.Scheme = v
       /\ \A v \in HostInputs : WithHost(v) => hr'.Host = v
       /\ \A v \in TimeoutInputs : WithTimeout(v) => hr'.Timeout = v
       /\ \A v \in BodyInputs : WithRawBody(v) => hr'.Body = v
       /\ NewRequest => (hr'.Scheme = "http" /\ hr'.Verb = "GET")]_vars

\* C15: MockResponse makes the registry hold the responder given for its key,
\* replacing the one held before, and leaves every other entry as it was;
\* ClearMockedResponses leaves the registry empty; no other operation adds or
\* removes an entry. So the registry holds exactly the latest responder of each
\* key registered since the last clear.
C15_RegistryHoldsLatest ==
    [][/\ \A k \in MockKeys, r \in ResponderInputs :
              MockResponse(k, r) =>
                  /\ DOMAIN mocks' = DOMAIN mocks \cup {k}
                  /\ mocks'[k] = r
                  /\ \A k2 \in DOMAIN mocks \ {k} : mocks'[k2] = mocks[k2]
       /\ ClearMockedResponses => DOMAIN mocks' = {}
       /\ last'.op # "registry" => DOMAIN mocks' = DOMAIN mocks]_vars

\* Two keys are registered, with different responders, the second right now.
C15_Witness ==
    /\ last.op = "registry"
    /\ DOMAIN mocks = MockKeys
    /\ \E k1, k2 \in MockKeys : mocks[k1] # mocks[k2]

\* C17: a fetch with a TLS path set that has materialized its request and
\* finds no mocked response returns the load error, without a network call, when both TLS paths are set
\* and the pair does not load; otherwise the request is sent: through the
\* custom transport when the pair loads, through the default one when at most
\* one path is set.
C17_CustomTransportIffBoth ==
    (/\ last.op \in FetchOps
     /\ ~last.req.isNil
     /\ hr.TLSCertPath # "" \/ hr.TLSKeyPath # ""
     /\ <<last.req.Method, last.req.URL>> \notin DOMAIN mocks) =>
        IF hr.TLSCertPath # "" /\ hr.TLSKeyPath # ""
           /\ ~(hr.TLSCertPath = "good.crt" /\ hr.TLSKeyPath = "good.key")
        THEN last.kind = "error" /\ last.err = "tlsload" /\ last.via = "none"
        ELSE last.via = "transport"

\* C18: Execute, FetchString and handleFetch leave no response body open when
\* they return, whether they succeeded, failed to read the body or the
\* handler failed; FetchRawResponse hands the open body to its caller.
C18_BodyClosed ==
    /\ last.op \in {"Execute", "FetchString", "handleFetch"} => ~last.bodyOpen
    /\ (last.op = "FetchRawResponse" /\ last.kind = "ok") => last.bodyOpen

\* C12: CombinePathComponents returns its segments, each without its leading
\* and trailing slashes, joined by one "/": no leading slash, no trailing
\* slash, no double slash, and empty segments add no slash.
C12_CombineStripsAndJoins ==
    Len(combined) >= 1 =>
        LET out == combined[1]
            RECURSIVE Strip(_)
            Strip(seg) == IF seg # <<>> /\ seg[1] = "/" THEN Strip(Tail(seg))
                          ELSE IF seg # <<>> /\ seg[Len(seg)] = "/"
                               THEN Strip(SubSeq(seg, 1, Len(seg) - 1))
                               ELSE seg
            RECURSIVE Join(_, _)
            Join(i, acc) == IF i > Len(pathArgs) THEN acc
                            ELSE IF Strip(pathArgs[i]) = <<>> THEN Join(i + 1, acc)
                            ELSE IF acc = <<>> THEN Join(i + 1, Strip(pathArgs[i]))
                            ELSE Join(i + 1, acc \o <<"/">> \o Strip(pathArgs[i]))
        IN  /\ out # <<>> => (out[1] # "/" /\ out[Len(out)] # "/")
            /\ \A i \in 1..(Len(out) - 1) : ~(out[i] = "/" /\ out[i + 1] = "/")
            /\ out = Join(1, <<>>)

\* C13: for two segments a, b, combining the result of combining a and b
\* gives that result again.
C13_CombineIdempotent ==
    (Len(pathArgs) = 2 /\ Len(combined) = 2) => combined[2] = combined[1]

\* C16: a thread that reads or writes the registry's map holds the mutex, so
\* no two threads are at the map at the same time; a thread that calls a
\* responder, or is inside one that calls the registry, does not hold the
\* mutex, so that call can take it.
C16_ExclusiveAndInvokedUnlocked ==
    /\ \A t \in Threads : pc[t].at \in {"locked", "applied"} => lock = t
    /\ \A t, u \in Threads :
           (pc[t].at \in {"locked", "applied"} /\ pc[u].at \in {"locked", "applied"}) => t = u
    /\ \A t \in Threads : pc[t].at \in {"invoke", "responder"} => lock # t
    /\ \A t \in Threads :
           (pc[t].at = "responder" /\ \A u \in Threads \ {t} : pc[u].at = "idle") =>
               ENABLED ResponderLock(t, "ClearMockedResponses", pc[t].key)

\* A responder's own registry call is at the map while the other thread has
\* found a responder and is about to call it.
C16_Witness ==
    \E t, u \in Threads :
        /\ t # u
        /\ pc[t].at = "applied"
        /\ pc[t].inner
        /\ pc[u].at = "invoke"

=============================================================================
